---- MODULE Spec2Model ----
(***************************************************************************)
(* A model of the arduino-mqtt client session driver (src/src/MQTTClient.cpp) *)
(* and of the lwmqtt string helper it uses for the will record, of the     *)
(* message callback and its handler, of the timer adapter and the          *)
(* transport read, and of the codec helpers of src/src/lwmqtt/helpers.c.   *)
(* Each part has a specification of its own over the same variables; the   *)
(* timers and the transport read also run together on clocks that differ,  *)
(* and the wire strings have one that includes the longest string.         *)
(*                                                                         *)
(* The transport (Client), the protocol engine (lwmqtt_connect, ...) and   *)
(* malloc/strdup are collaborators: their results are inputs, drawn from   *)
(* small sets.  Every call the driver makes to a collaborator during one   *)
(* operation is logged in `calls`, so that what an operation did can be    *)
(* stated about the state it leaves.                                       *)
(*                                                                         *)
(* C strings handed to the driver are modelled by their length (or by the  *)
(* null pointer); heap blocks by numbered identifiers that are never       *)
(* reused, so that a second free of a block is visible.                    *)
(***************************************************************************)
EXTENDS Integers, Sequences, FiniteSets, TLC

VARIABLES
  life,             \* "live" | "destroyed" (destructor ran) | "crashed" (a trap after undefined behaviour)
  begun,            \* begin() has been called
  readBuf,          \* MQTTClient::readBuf  /= nullptr
  writeBuf,         \* MQTTClient::writeBuf /= nullptr
  netClient,        \* MQTTClient::netClient /= nullptr
  hostname,         \* MQTTClient::hostname /= nullptr
  addressSet,       \* setHost(IPAddress, port) has been called
  _connected,       \* MQTTClient::_connected
  _lastError,       \* MQTTClient::_lastError
  _returnCode,      \* MQTTClient::_returnCode
  _sessionPresent,  \* MQTTClient::_sessionPresent
  nextDupPacketID,  \* MQTTClient::nextDupPacketID
  will,             \* MQTTClient::will and the record it points to
  heap,             \* the blocks setWill has allocated
  netStatus,        \* what the transport's connected() returns when asked
  op,               \* the last operation called (or "env" for a transport event)
  ret,              \* what that operation returned (FALSE for a void operation)
  calls,            \* the collaborator calls that operation made, in order
  dupSeen,          \* what the engine found in options.dup_id during the last publish
  willSeen,         \* the will record the engine was handed by the last connect
  callback,         \* MQTTClient::callback: client, type and the union's active member
  closures,         \* how often each std::function object built in the union was destroyed
  cbLog,            \* what the last registration (or the destructor) did to the union, in order
  dispatched,       \* what the last call of MQTTClientHandler wrote and handed to the callback
  clock,            \* the readings of the platform's millis() and of the clock source installed
  timers,           \* MQTTClient::timer1 and timer2
  timerGot,         \* what the last call of lwmqtt_arduino_timer_get returned
  rd,               \* the call of lwmqtt_arduino_network_read in progress, or the last one
  cbuf,             \* the bytes of the buffer the codec helpers work on
  cpos,             \* the codec cursor, as an offset into cbuf
  cout,             \* what the last codec helper call returned and touched
  cdata             \* the bytes last handed to write_data or write_string

\* the session driver's variables
sessVars == <<life, begun, readBuf, writeBuf, netClient, hostname, addressSet,
              _connected, _lastError, _returnCode, _sessionPresent, nextDupPacketID,
              will, heap, netStatus, op, ret, calls, dupSeen, willSeen>>

\* the message callback's variables
cbVars == <<callback, closures, cbLog, dispatched>>

\* the variables of the timer adapter, the transport read and the codec helpers
timerVars == <<clock, timers, timerGot>>
readVars == <<rd>>
codecVars == <<cbuf, cpos, cout, cdata>>
otherVars == <<timerVars, readVars, codecVars>>

vars == <<sessVars, cbVars, otherVars>>

----------------------------------------------------------------------------
(* Bounds of the model *)

\* packet ids staged by prepareDuplicate range over 0..MaxPacketID
MaxPacketID == 2
\* the transport's available() answers -1..MaxAvail
MaxAvail == 1
\* will topics and payloads have lengths 0..MaxWillLen, or the length 2^16
MaxWillLen == 1
\* malloc/strdup calls setWill may make over one run
MaxAllocs == 6
\* the constructor's readBufSize: the read buffer holds ReadBufSize + 1 bytes
ReadBufSize == 2
\* bytes of other objects on either side of the read buffer
Outside == 1
\* topic and payload views handed to the handler have lengths 0..MaxViewLen
MaxViewLen == 1
\* the callables the application registers are numbered 1..MaxFn
MaxFn == 1
\* std::function objects built in the callback union over one run
MaxClosures == 2
\* a transport read asks for 0..MaxReadLen bytes
MaxReadLen == 2
\* and is given a timeout of 0..MaxTimeout milliseconds
MaxTimeout == 2
\* the clock advances by 1..MaxTick milliseconds at a time
MaxTick == 2
\* a timer is followed over MaxAdvances advances of the clocks
MaxAdvances == 1
\* the codec helpers work on a buffer of CodecLen bytes
CodecLen == 5
\* byte runs and strings read or written have lengths 0..MaxDataLen
MaxDataLen == 2
\* a codec cursor is followed over MaxCalls helper calls
MaxCalls == 2

(* Program constants *)

\* lwmqtt_string_t.len is a uint16_t: lengths are stored modulo 2^16
UINT16_RANGE == 65536

----------------------------------------------------------------------------
(* Value sets *)

\* statuses the protocol engine returns (a sample of lwmqtt_err_t)
EngineStatus == {"LWMQTT_SUCCESS", "LWMQTT_NETWORK_TIMEOUT", "LWMQTT_CONNECTION_DENIED"}

\* broker return codes the engine reports in options.return_code
ReturnCodes == {"LWMQTT_CONNECTION_ACCEPTED", "LWMQTT_NOT_AUTHORIZED"}

\* results of Client::connect(host, port)
TransportRets == {-1, 0, 1}

\* results of Client::connected() (a uint8_t; the driver tests for == 1)
NetStatus == {0, 1, 2}

\* results of Client::available()
AvailVals == -1..MaxAvail

PacketIDs == 0..MaxPacketID

\* a C string argument: the null pointer, or a string of a given length
NullStr == [null |-> TRUE, len |-> 0]

CStr(n) == [null |-> FALSE, len |-> n]

WillLens == (0..MaxWillLen) \cup {UINT16_RANGE}

WillStrings == {NullStr} \cup {CStr(n) : n \in WillLens}

\* one logged collaborator call: the function; a, its argument of interest (for
\* lwmqtt_connect the return code it reported); r, the status an engine call
\* returned; n, the number a transport call returned (for lwmqtt_yield the
\* available bytes it was given, for lwmqtt_connect 1 when it reported
\* session-present)
Call(f, a, r, n) == [f |-> f, a |-> a, r |-> r, n |-> n]

\* calls through the transport pointer while it is nullptr: undefined behaviour
NullDerefs == {"nullptr->connect", "nullptr->stop"}

\* the protocol engine's entry points the driver delegates to
EngineCalls == {"lwmqtt_connect", "lwmqtt_publish", "lwmqtt_subscribe_one",
                "lwmqtt_unsubscribe_one", "lwmqtt_yield", "lwmqtt_keep_alive",
                "lwmqtt_disconnect"}

\* the transport's member functions the driver calls (connected() is a query
\* and is not logged)
TransportCalls == {"Client::connect", "Client::stop", "Client::available"}

\* lwmqtt_string_t {0, NULL}; data is a block identifier, 0 for NULL
EmptyString == [len |-> 0, data |-> 0]

\* will == nullptr
NullWill == [ptr |-> 0, topic |-> EmptyString, payload |-> EmptyString,
             retained |-> FALSE, qos |-> 0]

\* options.dup_id == NULL
NoDup == [set |-> FALSE, val |-> 0]

----------------------------------------------------------------------------
(* The session driver.  Each member function is an operator from the       *)
(* session's fields (a record s) and the collaborators' answers to the     *)
(* fields it leaves, with its return value in s.ret and the calls it made  *)
(* in s.calls.                                                             *)

\* the fields an operation reads and writes, as the operation starts
Session == [_connected |-> _connected, _lastError |-> _lastError,
            _returnCode |-> _returnCode, _sessionPresent |-> _sessionPresent,
            nextDupPacketID |-> nextDupPacketID, netStatus |-> netStatus,
            ret |-> FALSE, calls |-> <<>>, dupSeen |-> NoDup, willSeen |-> NullWill]

\* connected() as it would be if it trusted the flag alone
connectedFlagOnly(s) == s._connected /\ netClient

\* MQTTClient::connected()
connected(s) == s._connected /\ netClient /\ s.netStatus = 1

\* close() as it would be if it stopped the transport and kept the flag
closeFlagKept(s) ==
  IF netClient
    THEN [s EXCEPT !.calls = Append(@, Call("Client::stop", "", "", 0)),
                   !.netStatus = 0]
    ELSE [s EXCEPT !.calls = Append(@, Call("nullptr->stop", "", "", 0))]

\* MQTTClient::close(): clear the flag, stop the transport
close(s) ==
  IF netClient
    THEN [s EXCEPT !._connected = FALSE,
                   !.calls = Append(@, Call("Client::stop", "", "", 0)),
                   !.netStatus = 0]
    ELSE [s EXCEPT !._connected = FALSE,
                   !.calls = Append(@, Call("nullptr->stop", "", "", 0))]

\* MQTTClient::connect, from the call of lwmqtt_connect on: status, rc and sp
\* are the engine's status, options.return_code and options.session_present
connectEngine(s, status, rc, sp) ==
  LET s1 == [s EXCEPT !.calls = Append(@, Call("lwmqtt_connect", rc, status, IF sp THEN 1 ELSE 0)),
                      !.willSeen = will,
                      !._lastError = status,
                      !._returnCode = rc]
  IN IF status /= "LWMQTT_SUCCESS"
       THEN [close(s1) EXCEPT !.ret = FALSE]
       ELSE [s1 EXCEPT !._sessionPresent = sp, !._connected = TRUE, !.ret = TRUE]

\* MQTTClient::connect, the transport part: tret is what Client::connect returns
connectTransport(s, tret) ==
  [s EXCEPT !.calls = Append(@, Call(IF netClient THEN "Client::connect" ELSE "nullptr->connect",
                                     IF hostname THEN "hostname" ELSE "address", "", tret)),
            !.netStatus = IF ~netClient THEN @ ELSE IF tret > 0 THEN 1 ELSE 0]

\* MQTTClient::connect(clientID, username, password, skip)
connect(s, skip, tret, status, rc, sp) ==
  LET s1 == IF ~skip /\ connected(s) THEN close(s) ELSE s
  IN IF ~skip
       THEN LET s2 == connectTransport(s1, tret)
            IN IF tret <= 0
                 THEN [s2 EXCEPT !._lastError = "LWMQTT_NETWORK_FAILED_CONNECT", !.ret = FALSE]
                 ELSE connectEngine(s2, status, rc, sp)
       ELSE connectEngine(s1, status, rc, sp)

\* publish as it would be if it handed the staged id on and left it staged
publishStagedKept(s, status) ==
  IF ~connected(s) THEN [s EXCEPT !.ret = FALSE]
  ELSE LET staged == s.nextDupPacketID > 0
           s2 == [s EXCEPT !.dupSeen = IF staged
                                         THEN [set |-> TRUE, val |-> s.nextDupPacketID]
                                         ELSE NoDup,
                           !.calls = Append(@, Call("lwmqtt_publish", "", status, 0)),
                           !._lastError = status]
       IN IF status /= "LWMQTT_SUCCESS"
            THEN [close(s2) EXCEPT !.ret = FALSE]
            ELSE [s2 EXCEPT !.ret = TRUE]

\* MQTTClient::publish: options.dup_id points at the member nextDupPacketID, so
\* the engine finds in it what the member holds when lwmqtt_publish runs
publish(s, status) ==
  IF ~connected(s) THEN [s EXCEPT !.ret = FALSE]
  ELSE LET staged == s.nextDupPacketID > 0
           s1 == IF staged THEN [s EXCEPT !.nextDupPacketID = 0] ELSE s
           s2 == [s1 EXCEPT !.dupSeen = IF staged
                                          THEN [set |-> TRUE, val |-> s1.nextDupPacketID]
                                          ELSE NoDup,
                            !.calls = Append(@, Call("lwmqtt_publish", "", status, 0)),
                            !._lastError = status]
       IN IF status /= "LWMQTT_SUCCESS"
            THEN [close(s2) EXCEPT !.ret = FALSE]
            ELSE [s2 EXCEPT !.ret = TRUE]

\* MQTTClient::prepareDuplicate(packetID)
prepareDuplicate(s, packetID) == [s EXCEPT !.nextDupPacketID = packetID]

\* MQTTClient::subscribe(topic, qos)
subscribe(s, status) ==
  IF ~connected(s) THEN [s EXCEPT !.ret = FALSE]
  ELSE LET s1 == [s EXCEPT !.calls = Append(@, Call("lwmqtt_subscribe_one", "", status, 0)),
                           !._lastError = status]
       IN IF status /= "LWMQTT_SUCCESS"
            THEN [close(s1) EXCEPT !.ret = FALSE]
            ELSE [s1 EXCEPT !.ret = TRUE]

\* MQTTClient::unsubscribe(topic)
unsubscribe(s, status) ==
  IF ~connected(s) THEN [s EXCEPT !.ret = FALSE]
  ELSE LET s1 == [s EXCEPT !.calls = Append(@, Call("lwmqtt_unsubscribe_one", "", status, 0)),
                           !._lastError = status]
       IN IF status /= "LWMQTT_SUCCESS"
            THEN [close(s1) EXCEPT !.ret = FALSE]
            ELSE [s1 EXCEPT !.ret = TRUE]

\* MQTTClient::loop, the keep-alive part
loopKeepAlive(s, kstatus) ==
  LET s1 == [s EXCEPT !.calls = Append(@, Call("lwmqtt_keep_alive", "", kstatus, 0)),
                      !._lastError = kstatus]
  IN IF kstatus /= "LWMQTT_SUCCESS"
       THEN [close(s1) EXCEPT !.ret = FALSE]
       ELSE [s1 EXCEPT !.ret = TRUE]

\* loop as it would be if it yielded whenever available() is not negative
loopYieldOnZero(s, avail, ystatus, kstatus) ==
  IF ~connected(s) THEN [s EXCEPT !.ret = FALSE]
  ELSE LET s1 == [s EXCEPT !.calls = Append(@, Call("Client::available", "", "", avail))]
       IN IF avail >= 0
            THEN LET s2 == [s1 EXCEPT !.calls = Append(@, Call("lwmqtt_yield", "", ystatus, avail)),
                                      !._lastError = ystatus]
                 IN IF ystatus /= "LWMQTT_SUCCESS"
                      THEN [close(s2) EXCEPT !.ret = FALSE]
                      ELSE loopKeepAlive(s2, kstatus)
            ELSE loopKeepAlive(s1, kstatus)

\* MQTTClient::loop(): avail is what Client::available() returns, ystatus and
\* kstatus what lwmqtt_yield and lwmqtt_keep_alive return
loop(s, avail, ystatus, kstatus) ==
  IF ~connected(s) THEN [s EXCEPT !.ret = FALSE]
  ELSE LET s1 == [s EXCEPT !.calls = Append(@, Call("Client::available", "", "", avail))]
       IN IF avail > 0
            THEN LET s2 == [s1 EXCEPT !.calls = Append(@, Call("lwmqtt_yield", "", ystatus, avail)),
                                      !._lastError = ystatus]
                 IN IF ystatus /= "LWMQTT_SUCCESS"
                      THEN [close(s2) EXCEPT !.ret = FALSE]
                      ELSE loopKeepAlive(s2, kstatus)
            ELSE loopKeepAlive(s1, kstatus)

\* disconnect as it would be if it closed only after a failed send, as the
\* other operations do
disconnectCloseOnFailure(s, status) ==
  IF ~connected(s) THEN [s EXCEPT !.ret = FALSE]
  ELSE LET s1 == [s EXCEPT !.calls = Append(@, Call("lwmqtt_disconnect", "", status, 0)),
                           !._lastError = status]
       IN IF status /= "LWMQTT_SUCCESS"
            THEN [close(s1) EXCEPT !.ret = FALSE]
            ELSE [s1 EXCEPT !.ret = TRUE]

\* MQTTClient::disconnect()
disconnect(s, status) ==
  IF ~connected(s) THEN [s EXCEPT !.ret = FALSE]
  ELSE LET s1 == [s EXCEPT !.calls = Append(@, Call("lwmqtt_disconnect", "", status, 0)),
                           !._lastError = status]
       IN [close(s1) EXCEPT !.ret = (status = "LWMQTT_SUCCESS")]

----------------------------------------------------------------------------
(* The will record and the heap blocks behind it *)

\* malloc / strdup succeeding: a fresh block of the given kind, its identifier
\* being the next number
malloc(h, kind) ==
  [h EXCEPT !.blocks = Append(@, kind), !.live = @ \cup {Len(h.blocks) + 1}]

\* the identifier malloc(h, kind) gives the new block
newBlock(h) == Len(h.blocks) + 1

\* free(p): nothing for NULL; freeing a block that is not live is recorded
free(h, p) ==
  IF p = 0 THEN h
  ELSE IF p \in h.live THEN [h EXCEPT !.live = @ \ {p}]
  ELSE [h EXCEPT !.dbl = TRUE]

\* lwmqtt_string(str): str is the C string, p the address it is stored at
lwmqtt_string(str, p) ==
  IF str.null THEN EmptyString
  ELSE LET len == str.len % UINT16_RANGE
       IN IF len = 0 THEN EmptyString ELSE [len |-> len, data |-> p]

\* MQTTClient::clearWill() on will record w and heap h
clearWill(w, h) ==
  IF w.ptr = 0 THEN [will |-> w, heap |-> h]
  ELSE LET h1 == IF w.payload.len > 0 THEN free(h, w.payload.data) ELSE h
           h2 == IF w.topic.len > 0 THEN free(h1, w.topic.data) ELSE h1
       IN [will |-> NullWill, heap |-> free(h2, w.ptr)]

\* MQTTClient::setWill(topic, payload, retained, qos); m1, m2, m3 say whether
\* the malloc of the record, the strdup of the topic and the strdup of the
\* payload succeed
setWill(w, h, topic, payload, retained, qos, m1, m2, m3) ==
  IF topic.null \/ topic.len = 0 THEN [will |-> w, heap |-> h]
  ELSE
    LET c0 == clearWill(w, h)
    IN IF ~m1 THEN c0
       ELSE
         LET h1 == malloc(c0.heap, "record")
             w1 == [NullWill EXCEPT !.ptr = newBlock(c0.heap)]
         IN IF ~m2 THEN clearWill(w1, h1)
            ELSE
              LET h2 == malloc(h1, "topic")
                  w2 == [w1 EXCEPT !.topic = lwmqtt_string(topic, newBlock(h1))]
              IN IF ~payload.null /\ payload.len /= 0
                   THEN IF ~m3 THEN clearWill(w2, h2)
                        ELSE [will |-> [w2 EXCEPT !.payload = lwmqtt_string(payload, newBlock(h2)),
                                                  !.retained = retained, !.qos = qos],
                              heap |-> malloc(h2, "payload")]
                   ELSE [will |-> [w2 EXCEPT !.retained = retained, !.qos = qos],
                         heap |-> h2]

----------------------------------------------------------------------------
(* 32-bit unsigned arithmetic: a uint32_t is held as two 16-bit halves *)

U32(hi, lo) == [hi |-> hi, lo |-> lo]

\* the uint32_t of a number below 2^31
u32(n) == U32(n \div UINT16_RANGE, n % UINT16_RANGE)

\* a + b and a - b in uint32_t
plus32(a, b) ==
  LET lo == a.lo + b.lo
  IN U32((a.hi + b.hi + lo \div UINT16_RANGE) % UINT16_RANGE, lo % UINT16_RANGE)
minus32(a, b) ==
  LET lo == a.lo - b.lo
      borrow == IF lo < 0 THEN 1 ELSE 0
  IN U32((a.hi - b.hi - borrow) % UINT16_RANGE, lo % UINT16_RANGE)

\* a >= b in uint32_t
geq32(a, b) == a.hi > b.hi \/ (a.hi = b.hi /\ a.lo >= b.lo)

\* (int32_t)a
int32(a) ==
  (IF 2 * a.hi >= UINT16_RANGE THEN a.hi - UINT16_RANGE ELSE a.hi) * UINT16_RANGE + a.lo

\* the largest uint32_t, and the readings a clock starts from
UINT32_MAX == U32(UINT16_RANGE - 1, UINT16_RANGE - 1)
ClockStarts == {u32(0), minus32(UINT32_MAX, u32(1)), UINT32_MAX}

\* the largest int32_t
INT32_MAX == (UINT16_RANGE \div 2 - 1) * UINT16_RANGE + (UINT16_RANGE - 1)

----------------------------------------------------------------------------
(* The timer adapter: lwmqtt_arduino_timer_set, lwmqtt_arduino_timer_get *)

\* lwmqtt_arduino_timer_t as the member initialisers leave it: millis names
\* the clock source ("" for nullptr).  T and since are not fields of the
\* struct: the timeout last set and the milliseconds its clock has advanced
\* since then (-1 when that is not known)
NewTimer == [start |-> u32(0), timeout |-> u32(0), millis |-> "", T |-> 0, since |-> -1]

\* (t->millis != nullptr) ? t->millis() : millis()
timer_source(t) == IF t.millis /= "" THEN "custom" ELSE "millis"
timer_now(t) == clock[timer_source(t)]

\* lwmqtt_arduino_timer_set(ref, timeout)
timer_set(t, timeout) ==
  [t EXCEPT !.timeout = u32(timeout), !.start = timer_now(t), !.T = timeout, !.since = 0]

\* the elapsed time as it would be if a reading below start counted as none
elapsedNoWrap(now, start) == IF geq32(now, start) THEN minus32(now, start) ELSE u32(0)

\* uint32_t elapsed = now - t->start
elapsed(now, start) == minus32(now, start)

\* lwmqtt_arduino_timer_get(ref)
timer_get(t) == int32(minus32(t.timeout, elapsed(timer_now(t), t.start)))

\* before lwmqtt_arduino_timer_get has been called; advances counts the
\* advances of the clocks so far
NothingGot == [timer |-> 0, remaining |-> 0, T |-> 0, since |-> -1, advances |-> 0]

\* MQTTClient::setClockSource(cb): both timers take the source; how far a
\* running timer's clock has advanced is no longer known
setClockSource(ts, cb) == [i \in DOMAIN ts |-> [ts[i] EXCEPT !.millis = cb, !.since = -1]]

\* the timeouts a timer is set to, and the amounts a clock advances by
TimeoutSamples == (0..MaxTimeout) \cup {INT32_MAX}
Advances == (1..MaxTick) \cup {INT32_MAX}

\* a clock advanced by d: a timer reading that clock has waited d more
advanced(ts, c, d) ==
  [i \in DOMAIN ts |->
     IF timer_source(ts[i]) = c /\ ts[i].since >= 0
       THEN [ts[i] EXCEPT !.since = IF @ <= INT32_MAX - d THEN @ + d ELSE -1]
       ELSE ts[i]]

----------------------------------------------------------------------------
(* The transport read: lwmqtt_arduino_network_read *)

\* before any call
NoRead == [pc |-> "idle", start |-> u32(0), timeout |-> u32(0), requested |-> 0,
           len |-> 0, read |-> 0, handed |-> 0, stop |-> "", ret |-> ""]

\* the entry of lwmqtt_arduino_network_read(ref, buffer, len, read, timeout)
network_read_enter(len, timeout) ==
  [pc |-> "loop", start |-> clock.millis, timeout |-> u32(timeout), requested |-> len,
   len |-> len, read |-> 0, handed |-> 0, stop |-> "", ret |-> ""]

\* the deadline test as it would be if it waited for the exact tick
expiredExactly(now, start, timeout) == minus32(now, start) = timeout

\* millis() - start >= timeout
expired(now, start, timeout) == geq32(minus32(now, start), timeout)

\* the status after the loop as it would be if a short read were a timeout
network_read_status_short(r) ==
  IF r.read < r.requested THEN "LWMQTT_NETWORK_TIMEOUT" ELSE "LWMQTT_SUCCESS"

\* return (*read == 0) ? LWMQTT_NETWORK_TIMEOUT : LWMQTT_SUCCESS
network_read_status(r) == IF r.read = 0 THEN "LWMQTT_NETWORK_TIMEOUT" ELSE "LWMQTT_SUCCESS"

\* leaving the loop for the reason `stop`
network_read_return(r, stop) ==
  [r EXCEPT !.pc = "done", !.stop = stop, !.ret = network_read_status(r)]

\* one pass of the while loop up to the call of yield(): n is what
\* Client::read returned; handed counts the bytes the transport gave out.
\* With nothing read the pass goes on into yield()
network_read_step(r, n) ==
  IF r.len = 0 THEN network_read_return(r, "filled")
  ELSE IF expired(clock.millis, r.start, r.timeout) THEN network_read_return(r, "deadline")
  ELSE IF n > 0
    THEN [r EXCEPT !.read = @ + n, !.len = @ - n, !.handed = @ + n]
  ELSE [r EXCEPT !.pc = "yield"]

\* the rest of the pass, once yield() has returned: up is what
\* Client::connected() answers
network_read_connected(r, up) ==
  IF ~up
    THEN [r EXCEPT !.pc = "done", !.stop = "disconnected",
                   !.ret = "LWMQTT_NETWORK_FAILED_READ"]
    ELSE [r EXCEPT !.pc = "loop"]

----------------------------------------------------------------------------
(* The codec helpers of lwmqtt/helpers.c *)

\* The cursor *buf is the offset pos into the byte sequence buf, buf_end the
\* offset Len(buf); the byte at offset p is buf[p + 1].  A helper returns its
\* status, the buffer and cursor it leaves, the number it read (num), the
\* view it handed out (view; data = -1 is NULL) and the offsets of the bytes
\* it read, wrote or handed out (touched).
NoView == [data |-> -1, len |-> 0]
Res(err, buf, pos, num, view, touched) ==
  [err |-> err, buf |-> buf, pos |-> pos, num |-> num, view |-> view, touched |-> touched]

\* read_data as it would be without the capacity check
lwmqtt_read_data_unchecked(buf, pos, len) ==
  IF len = 0 THEN Res("LWMQTT_SUCCESS", buf, pos, 0, NoView, {})
  ELSE Res("LWMQTT_SUCCESS", buf, pos + len, 0, [data |-> pos, len |-> len],
           pos..(pos + len - 1))

\* read_data as it would be without the early exit for len == 0
lwmqtt_read_data_no_early_exit(buf, pos, len) ==
  IF Len(buf) - pos < len THEN Res("LWMQTT_BUFFER_TOO_SHORT", buf, pos, 0, NoView, {})
  ELSE Res("LWMQTT_SUCCESS", buf, pos + len, 0, [data |-> pos, len |-> len],
           pos..(pos + len - 1))

lwmqtt_read_data(buf, pos, len) ==
  IF len = 0 THEN Res("LWMQTT_SUCCESS", buf, pos, 0, NoView, {})
  ELSE IF Len(buf) - pos < len THEN Res("LWMQTT_BUFFER_TOO_SHORT", buf, pos, 0, NoView, {})
  ELSE Res("LWMQTT_SUCCESS", buf, pos + len, 0, [data |-> pos, len |-> len],
           pos..(pos + len - 1))

\* memcpy(*buf, data, len): the bytes before the cursor, the data, and the
\* bytes after it
lwmqtt_write_data(buf, pos, data) ==
  IF Len(data) = 0 THEN Res("LWMQTT_SUCCESS", buf, pos, 0, NoView, {})
  ELSE IF Len(buf) - pos < Len(data)
    THEN Res("LWMQTT_BUFFER_TOO_SHORT", buf, pos, 0, NoView, {})
  ELSE Res("LWMQTT_SUCCESS",
           SubSeq(buf, 1, pos) \o data \o SubSeq(buf, pos + Len(data) + 1, Len(buf)),
           pos + Len(data), 0, NoView, pos..(pos + Len(data) - 1))

lwmqtt_read_num(buf, pos) ==
  IF Len(buf) - pos < 2 THEN Res("LWMQTT_BUFFER_TOO_SHORT", buf, pos, 0, NoView, {})
  ELSE Res("LWMQTT_SUCCESS", buf, pos + 2, buf[pos + 1] * 256 + buf[pos + 2], NoView,
           {pos, pos + 1})

\* write_num as it would be with the low byte first
lwmqtt_write_num_le(buf, pos, num) ==
  IF Len(buf) - pos < 2 THEN Res("LWMQTT_BUFFER_TOO_SHORT", buf, pos, 0, NoView, {})
  ELSE Res("LWMQTT_SUCCESS",
           [buf EXCEPT ![pos + 1] = num % 256, ![pos + 2] = (num \div 256) % 256],
           pos + 2, 0, NoView, {pos, pos + 1})

lwmqtt_write_num(buf, pos, num) ==
  IF Len(buf) - pos < 2 THEN Res("LWMQTT_BUFFER_TOO_SHORT", buf, pos, 0, NoView, {})
  ELSE Res("LWMQTT_SUCCESS",
           [buf EXCEPT ![pos + 1] = (num \div 256) % 256, ![pos + 2] = num % 256],
           pos + 2, 0, NoView, {pos, pos + 1})

lwmqtt_read_string(buf, pos) ==
  LET n == lwmqtt_read_num(buf, pos)
      d == lwmqtt_read_data(n.buf, n.pos, n.num)
  IN IF n.err /= "LWMQTT_SUCCESS" THEN n
     ELSE IF d.err /= "LWMQTT_SUCCESS" THEN [d EXCEPT !.touched = n.touched]
     ELSE [d EXCEPT !.num = n.num, !.view.len = n.num, !.touched = n.touched \cup @]

\* str is the byte sequence str.data points at, str.len its length
lwmqtt_write_string(buf, pos, str) ==
  LET n == lwmqtt_write_num(buf, pos, Len(str) % UINT16_RANGE)
      d == lwmqtt_write_data(n.buf, n.pos, str)
  IN IF n.err /= "LWMQTT_SUCCESS" THEN n
     ELSE [d EXCEPT !.touched = n.touched \cup @]

lwmqtt_read_byte(buf, pos) ==
  IF Len(buf) <= pos THEN Res("LWMQTT_BUFFER_TOO_SHORT", buf, pos, 0, NoView, {})
  ELSE Res("LWMQTT_SUCCESS", buf, pos + 1, buf[pos + 1], NoView, {pos})

lwmqtt_write_byte(buf, pos, byte) ==
  IF Len(buf) <= pos THEN Res("LWMQTT_BUFFER_TOO_SHORT", buf, pos, 0, NoView, {})
  ELSE Res("LWMQTT_SUCCESS", [buf EXCEPT ![pos + 1] = byte], pos + 1, 0, NoView, {pos})

\* varnum_length with the thresholds the source's comments say it once had
lwmqtt_varnum_length_old(varnum) ==
  IF varnum < 128 THEN [err |-> "LWMQTT_SUCCESS", len |-> 1]
  ELSE IF varnum < 16384 THEN [err |-> "LWMQTT_SUCCESS", len |-> 2]
  ELSE IF varnum < 2097151 THEN [err |-> "LWMQTT_SUCCESS", len |-> 3]
  ELSE IF varnum < 268435455 THEN [err |-> "LWMQTT_SUCCESS", len |-> 4]
  ELSE [err |-> "LWMQTT_VARNUM_OVERFLOW", len |-> 0]

lwmqtt_varnum_length(varnum) ==
  IF varnum < 128 THEN [err |-> "LWMQTT_SUCCESS", len |-> 1]
  ELSE IF varnum < 16384 THEN [err |-> "LWMQTT_SUCCESS", len |-> 2]
  ELSE IF varnum < 2097152 THEN [err |-> "LWMQTT_SUCCESS", len |-> 3]
  ELSE IF varnum < 268435456 THEN [err |-> "LWMQTT_SUCCESS", len |-> 4]
  ELSE [err |-> "LWMQTT_VARNUM_OVERFLOW", len |-> 0]

\* 1 << shift
RECURSIVE Shl(_)
Shl(shift) == IF shift = 0 THEN 1 ELSE 2 * Shl(shift - 1)

\* the do-while loop of lwmqtt_read_varnum, from one pass on
RECURSIVE read_varnum_loop(_, _, _, _, _)
read_varnum_loop(buf, pos, shift, varnum, touched) ==
  IF pos >= Len(buf) THEN Res("LWMQTT_BUFFER_TOO_SHORT", buf, pos, varnum, NoView, touched)
  ELSE IF shift >= 28 THEN Res("LWMQTT_VARNUM_OVERFLOW", buf, pos, varnum, NoView, touched)
  ELSE LET byte == buf[pos + 1]
           acc == varnum + (byte % 128) * Shl(shift)
       IN IF byte >= 128
            THEN read_varnum_loop(buf, pos + 1, shift + 7, acc, touched \cup {pos})
            ELSE Res("LWMQTT_SUCCESS", buf, pos + 1, acc, NoView, touched \cup {pos})

lwmqtt_read_varnum(buf, pos) == read_varnum_loop(buf, pos, 0, 0, {})

\* the do-while loop of lwmqtt_write_varnum, from one pass on
RECURSIVE write_varnum_loop(_, _, _, _)
write_varnum_loop(buf, pos, varnum, touched) ==
  IF pos >= Len(buf) THEN Res("LWMQTT_BUFFER_TOO_SHORT", buf, pos, 0, NoView, touched)
  ELSE LET rest == varnum \div 128
           byte == IF rest > 0 THEN (varnum % 128) + 128 ELSE varnum % 128
           out == [buf EXCEPT ![pos + 1] = byte]
       IN IF rest > 0
            THEN write_varnum_loop(out, pos + 1, rest, touched \cup {pos})
            ELSE Res("LWMQTT_SUCCESS", out, pos + 1, 0, NoView, touched \cup {pos})

lwmqtt_write_varnum(buf, pos, varnum) == write_varnum_loop(buf, pos, varnum, {})

\* the inputs of the helpers: bytes with and without the continuation bit,
\* runs of one byte, numbers around the byte boundary and the buffer's length,
\* varnums on either side of every threshold up to the largest value held
ByteSamples == {1, 128}
DataSamples == {[i \in 1..n |-> b] : n \in 0..MaxDataLen, b \in ByteSamples}
NumSamples == {0, 1, CodecLen, 258}
VarnumSamples == {0, 127, 128, 16383, 16384, 2097151, 2097152, 268435455, 268435456,
                  INT32_MAX}

\* the largest length a lwmqtt_string_t holds
UINT16_MAX == UINT16_RANGE - 1
\* wire strings: the short ones and the longest, their bytes stepping through
\* the byte values from b on (SubSeq yields the bytes as a tuple)
StringSamples ==
  {SubSeq([i \in 1..n |-> (b + i) % 256], 1, n) :
     n \in (0..MaxDataLen) \cup {UINT16_MAX}, b \in ByteSamples}
\* the lengths of the buffers strings are written to: the short one, and one
\* that holds the longest string with a byte to spare
StringBufLens == {CodecLen, 2 + UINT16_MAX + 1}

\* the codec operations
ReadOps == {"read_byte", "read_num", "read_data", "read_string", "read_varnum"}
WriteOps == {"write_byte", "write_num", "write_data", "write_string", "write_varnum"}

\* before any call; calls counts the calls so far
NoCall == [op |-> "", arg |-> 0, err |-> "", pre |-> 0, post |-> 0, num |-> 0,
           view |-> NoView, touched |-> {}, calls |-> 0]

\* the record of the call of helper f with the number arg that returned r
Called(f, arg, r) ==
  [op |-> f, arg |-> arg, err |-> r.err, pre |-> cpos, post |-> r.pos, num |-> r.num,
   view |-> r.view, touched |-> r.touched, calls |-> cout.now.calls + 1]

----------------------------------------------------------------------------
(* The message callback: MQTTClientCallback and MQTTClientHandler *)

\* Memory is a row of byte addresses; 0 is the null pointer.  The read buffer
\* starts at BufBase and holds ReadBufSize + 1 bytes; Outside bytes of other
\* objects lie below and above it.
BufBase == Outside + 1
MaxAddr == BufBase + ReadBufSize + Outside
Addrs == 0..MaxAddr

\* MQTTClient::readBufferPtr() and MQTTClient::readBufferSize(): the
\* constructor leaves pointer and size zero when an allocation failed
readBufferPtr == IF readBuf THEN BufBase ELSE 0
readBufferSize == IF readBuf THEN ReadBufSize ELSE 0

\* a (pointer, length) view of bytes that exist; the null view has length 0
Views == {v \in [data : Addrs, len : 0..MaxViewLen] :
            /\ v.data + v.len <= MaxAddr
            /\ v.data = 0 => v.len = 0}
NullView == [data |-> 0, len |-> 0]

\* enum MQTTCallbackType
FuncTypes == {"MQTT_CB_FUNC_SIMPLE", "MQTT_CB_FUNC_ADVANCED", "MQTT_CB_FUNC_RAW"}
PointerTypes == {"MQTT_CB_SIMPLE", "MQTT_CB_ADVANCED", "MQTT_CB_RAW"}
RawTypes == {"MQTT_CB_RAW", "MQTT_CB_FUNC_RAW"}
AdvancedTypes == {"MQTT_CB_ADVANCED", "MQTT_CB_FUNC_ADVANCED"}
SimpleTypes == {"MQTT_CB_SIMPLE", "MQTT_CB_FUNC_SIMPLE"}

\* MQTTClientCallback::MQTTClientCallback(): fn is the callable held (0 for
\* nullptr), obj the std::function object alive in the union (0 for none)
NoCallback == [client |-> FALSE, type |-> "MQTT_CB_NONE", fn |-> 0, obj |-> 0]

\* one step of a registration, as cbLog records it
CbEvent(e, type, fn, obj) == [e |-> e, type |-> type, fn |-> fn, obj |-> obj]

\* the callback member with the ledger of std::function objects and the log
CallbackState == [callback |-> callback, closures |-> closures, cbLog |-> <<>>]

\* MQTTClientCallback::~MQTTClientCallback(): the destructor of the union
\* member the type names is called
destructCallback(c) ==
  IF c.callback.type \in FuncTypes
    THEN [c EXCEPT !.closures[c.callback.obj] = @ + 1,
                   !.cbLog = Append(@, CbEvent("destroy", c.callback.type,
                                               c.callback.fn, c.callback.obj))]
    ELSE c

\* clear() as it would be if it left the type in place
clearTypeKept(c) ==
  LET d == destructCallback(c)
  IN [d EXCEPT !.callback.fn = 0]

\* MQTTClientCallback::clear()
clear(c) ==
  LET d == destructCallback(c)
  IN [d EXCEPT !.callback.type = "MQTT_CB_NONE", !.callback.fn = 0, !.callback.obj = 0]

\* MQTTClient::destroyCallback()
destroyCallback(c) == clear(c)

\* MQTTClient::onMessage, onMessageAdvanced, onMessageRaw and their
\* std::function overloads: type names the overload, fn the callable passed
onMessage(c, type, fn) ==
  LET d == destroyCallback(c)
      obj == IF type \in FuncTypes THEN Len(d.closures) + 1 ELSE 0
  IN [callback |-> [client |-> TRUE, type |-> type, fn |-> fn, obj |-> obj],
      closures |-> IF type \in FuncTypes THEN Append(d.closures, 0) ELSE d.closures,
      cbLog |-> Append(d.cbLog, CbEvent("install", type, fn, obj))]

\* the callback part of MQTTClient::~MQTTClient(): destroyCallback() in the
\* body, then the destructor of the member itself
destroyMember(c) == destructCallback(destroyCallback(c))

\* the state of `dispatched` before the handler has run
NothingDispatched ==
  [handled |-> FALSE, invoked |-> FALSE, type |-> "MQTT_CB_NONE", fn |-> 0,
   topic |-> NullView, message |-> NullView, written |-> <<>>, args |-> <<>>,
   topicBytes |-> <<>>, payloadBytes |-> <<>>]

\* the bytes decode left in memory are all non-zero (1); the handler's writes
\* store a zero
Store(written) ==
  [a \in Addrs |-> IF \E i \in 1..Len(written) : written[i] = a THEN 0 ELSE 1]
Bytes(mem, v) == [i \in 1..v.len |-> mem[v.data + i - 1]]

\* the can_terminate lambda as it would be if it compared with <=
can_terminate_inclusive(buf_base, buf_end, ptr, len) ==
  IF buf_base = 0 THEN FALSE ELSE ptr >= buf_base /\ ptr + len <= buf_end

\* the can_terminate lambda of MQTTClientHandler
can_terminate(buf_base, buf_end, ptr, len) ==
  IF buf_base = 0 THEN FALSE ELSE ptr >= buf_base /\ ptr + len < buf_end

\* the terminators the legacy path of MQTTClientHandler writes, in order
terminators(cb, topic, message) ==
  LET buf_base == IF cb.client THEN readBufferPtr ELSE 0
      buf_cap == IF cb.client THEN readBufferSize + 1 ELSE 0
      buf_end == IF buf_base /= 0 THEN buf_base + buf_cap ELSE 0
  IN (IF can_terminate(buf_base, buf_end, topic.data, topic.len)
        THEN <<topic.data + topic.len>> ELSE <<>>)
     \o (IF message.data /= 0 /\ can_terminate(buf_base, buf_end, message.data, message.len)
          THEN <<message.data + message.len>> ELSE <<>>)

\* the handler as it would be if the raw kinds took the legacy path
writesOfAnyKind(cb, topic, message) == terminators(cb, topic, message)

\* what MQTTClientHandler writes for the callback it finds: nothing on the
\* zero-copy path
writesOf(cb, topic, message) ==
  IF cb.type \in RawTypes THEN <<>> ELSE terminators(cb, topic, message)

\* MQTTClientHandler(client, ref, topic, message): message.data is the
\* payload pointer, message.len the payload length
MQTTClientHandler(cb, topic, message) ==
  IF cb.type = "MQTT_CB_NONE"
    THEN [NothingDispatched EXCEPT !.handled = TRUE, !.topic = topic, !.message = message]
    ELSE
      LET written == writesOf(cb, topic, message)
          mem == Store(written)
          text == Bytes(mem, topic)
          body == IF message.data /= 0 THEN Bytes(mem, message) ELSE <<>>
      IN [handled |-> TRUE, invoked |-> TRUE, type |-> cb.type, fn |-> cb.fn,
          topic |-> topic, message |-> message, written |-> written,
          args |-> CASE cb.type \in RawTypes ->
                          <<topic.data, topic.len, message.data, message.len>>
                     [] cb.type \in AdvancedTypes ->
                          <<topic.data, message.data, message.len>>
                     [] OTHER -> <<text, body>>,
          topicBytes |-> text, payloadBytes |-> body]

----------------------------------------------------------------------------
(* The state machine *)

\* MQTTClient::MQTTClient(readBufSize, writeBufSize) and the member initialisers:
\* either malloc may fail, and then both buffers are left null
Constructed ==
  /\ life = "live"
  /\ begun = FALSE
  /\ \E r, w \in BOOLEAN : readBuf = (r /\ w) /\ writeBuf = (r /\ w)
  /\ netClient = FALSE
  /\ hostname = FALSE
  /\ addressSet = FALSE
  /\ _connected = FALSE
  /\ _lastError = "LWMQTT_SUCCESS"
  /\ _returnCode = "LWMQTT_CONNECTION_ACCEPTED"
  /\ _sessionPresent = FALSE
  /\ nextDupPacketID = 0
  /\ will = NullWill
  /\ heap = [blocks |-> <<>>, live |-> {}, dbl |-> FALSE]
  /\ netStatus = 0
  /\ op = "new"
  /\ ret = FALSE
  /\ calls = <<>>
  /\ dupSeen = NoDup
  /\ willSeen = NullWill
  /\ callback = NoCallback
  /\ closures = <<>>
  /\ cbLog = <<>>
  /\ dispatched = NothingDispatched

\* the timers as the member initialisers leave them, the clocks at zero
ClocksAtZero == clock = [millis |-> u32(0), custom |-> u32(0)]
TimersIdle ==
  /\ timers = [i \in {1, 2} |-> NewTimer]
  /\ timerGot = NothingGot

\* no transport read has been called
ReaderIdle == rd = NoRead

\* the codec helpers have no buffer to work on
CodecIdle ==
  /\ cbuf = <<>>
  /\ cpos = 0
  /\ cout = [now |-> NoCall, prev |-> NoCall]
  /\ cdata = <<>>

Init == Constructed /\ ClocksAtZero /\ TimersIdle /\ ReaderIdle /\ CodecIdle

\* a call through the null transport pointer was made
DerefNull(cs) == \E i \in 1..Len(cs) : cs[i].f \in NullDerefs

\* the session's fields after operation `name` left them as in s; after
\* undefined behaviour the program either traps (trap) or carries on with
\* whatever value the call produced
Install(name, s, trap) ==
  /\ op' = name
  /\ life' = IF DerefNull(s.calls) /\ trap THEN "crashed" ELSE life
  /\ _connected' = s._connected
  /\ _lastError' = s._lastError
  /\ _returnCode' = s._returnCode
  /\ _sessionPresent' = s._sessionPresent
  /\ nextDupPacketID' = s.nextDupPacketID
  /\ netStatus' = s.netStatus
  /\ ret' = s.ret
  /\ calls' = s.calls
  /\ dupSeen' = s.dupSeen
  /\ willSeen' = s.willSeen
  /\ UNCHANGED <<begun, readBuf, writeBuf, netClient, hostname, addressSet, will, heap>>
  /\ UNCHANGED <<cbVars, otherVars>>

\* the operations of a session are called on an object that still exists,
\* whether or not begin() has been called on it
Usable == life = "live"

\* MQTTClient::begin(Client &)
Begin ==
  /\ life = "live"
  /\ begun' = TRUE
  /\ IF ~readBuf \/ ~writeBuf
       THEN _lastError' = "LWMQTT_BUFFER_TOO_SHORT" /\ UNCHANGED netClient
       ELSE netClient' = TRUE /\ UNCHANGED _lastError
  /\ op' = "begin" /\ ret' = FALSE /\ calls' = <<>> /\ dupSeen' = NoDup /\ willSeen' = NullWill
  /\ UNCHANGED <<life, readBuf, writeBuf, hostname, addressSet, _connected, _returnCode,
                 _sessionPresent, nextDupPacketID, will, heap, netStatus>>
  /\ UNCHANGED <<cbVars, otherVars>>

\* MQTTClient::setHost(const char[], int) and setHost(IPAddress, int): strdup
\* of the hostname may return NULL
SetHost ==
  /\ life = "live"
  /\ \/ \E dup \in BOOLEAN : hostname' = dup /\ UNCHANGED addressSet
     \/ addressSet' = TRUE /\ UNCHANGED hostname
  /\ op' = "setHost" /\ ret' = FALSE /\ calls' = <<>> /\ dupSeen' = NoDup /\ willSeen' = NullWill
  /\ UNCHANGED <<life, begun, readBuf, writeBuf, netClient, _connected, _lastError, _returnCode,
                 _sessionPresent, nextDupPacketID, will, heap, netStatus>>
  /\ UNCHANGED <<cbVars, otherVars>>

Connect ==
  /\ Usable
  /\ \E skip \in BOOLEAN, tret \in TransportRets, status \in EngineStatus,
        rc \in ReturnCodes, sp \in BOOLEAN, trap \in BOOLEAN :
       Install(IF skip THEN "connect(skip)" ELSE "connect",
               connect(Session, skip, tret, status, rc, sp), trap)

Publish ==
  /\ Usable
  /\ \E status \in EngineStatus : Install("publish", publish(Session, status), FALSE)

PrepareDuplicate ==
  /\ Usable
  /\ \E id \in PacketIDs : Install("prepareDuplicate", prepareDuplicate(Session, id), FALSE)

Subscribe ==
  /\ Usable
  /\ \E status \in EngineStatus : Install("subscribe", subscribe(Session, status), FALSE)

Unsubscribe ==
  /\ Usable
  /\ \E status \in EngineStatus : Install("unsubscribe", unsubscribe(Session, status), FALSE)

Loop ==
  /\ Usable
  /\ \E avail \in AvailVals, ystatus \in EngineStatus, kstatus \in EngineStatus :
       Install("loop", loop(Session, avail, ystatus, kstatus), FALSE)

Disconnect ==
  /\ Usable
  /\ \E status \in EngineStatus : Install("disconnect", disconnect(Session, status), FALSE)

\* the transport's own state changes under the driver: the peer closes the
\* connection, or the transport reports a connection the driver did not open
Transport ==
  /\ life = "live"
  /\ \E n \in NetStatus \ {netStatus} : netStatus' = n
  /\ op' = "env" /\ ret' = FALSE /\ calls' = <<>> /\ dupSeen' = NoDup /\ willSeen' = NullWill
  /\ UNCHANGED <<life, begun, readBuf, writeBuf, netClient, hostname, addressSet, _connected,
                 _lastError, _returnCode, _sessionPresent, nextDupPacketID, will, heap>>
  /\ UNCHANGED <<cbVars, otherVars>>

\* what every will operation leaves alone
WillFrame ==
  /\ ret' = FALSE /\ calls' = <<>> /\ dupSeen' = NoDup /\ willSeen' = NullWill
  /\ UNCHANGED <<begun, readBuf, writeBuf, netClient, hostname, addressSet, _connected,
                 _lastError, _returnCode, _sessionPresent, nextDupPacketID, netStatus>>
  /\ UNCHANGED otherVars

\* failAt names the allocation that fails: 1 the record, 2 the topic copy,
\* 3 the payload copy, 0 none
SetWill ==
  /\ life = "live"
  /\ Len(heap.blocks) + 3 <= MaxAllocs
  /\ \E topic \in WillStrings, payload \in WillStrings, flags \in {<<FALSE, 0>>, <<TRUE, 1>>},
        failAt \in 0..3 :
       LET r == setWill(will, heap, topic, payload, flags[1], flags[2],
                        failAt /= 1, failAt /= 2, failAt /= 3)
       IN will' = r.will /\ heap' = r.heap
  /\ op' = "setWill" /\ UNCHANGED <<life, cbVars>>
  /\ WillFrame

ClearWill ==
  /\ life = "live"
  /\ LET r == clearWill(will, heap) IN will' = r.will /\ heap' = r.heap
  /\ op' = "clearWill" /\ UNCHANGED <<life, cbVars>>
  /\ WillFrame

\* MQTTClient::~MQTTClient(): the callback is destroyed, the will is cleared,
\* the object is gone
Destroy ==
  /\ life = "live"
  /\ LET c == destroyMember(CallbackState)
     IN callback' = c.callback /\ closures' = c.closures /\ cbLog' = c.cbLog
  /\ dispatched' = NothingDispatched
  /\ LET r == clearWill(will, heap) IN will' = r.will /\ heap' = r.heap
  /\ op' = "destroy" /\ life' = "destroyed"
  /\ WillFrame

\* connect as the will specification calls it: the transport is not opened
\* again (skip), the engine answers as it likes
WillConnect ==
  /\ Usable
  /\ \E status \in EngineStatus :
       Install("connect(skip)",
               connect(Session, TRUE, 1, status, "LWMQTT_CONNECTION_ACCEPTED", FALSE), TRUE)

\* the session driver: every operation but those of the will
Next ==
  \/ Begin \/ SetHost \/ Connect \/ Publish \/ PrepareDuplicate \/ Subscribe
  \/ Unsubscribe \/ Loop \/ Disconnect \/ Transport

Spec == Init /\ [][Next]_vars

\* the will's life: set, cleared, handed to the engine by connect, destroyed
NextWill == Begin \/ SetWill \/ ClearWill \/ WillConnect \/ Destroy

SpecWill == Init /\ [][NextWill]_vars

\* onMessage(cb), onMessageAdvanced(cb), onMessageRaw(cb) with a function pointer
OnMessage ==
  /\ life = "live"
  /\ \E type \in PointerTypes, fn \in 1..MaxFn :
       LET c == onMessage(CallbackState, type, fn)
       IN callback' = c.callback /\ closures' = c.closures /\ cbLog' = c.cbLog
  /\ dispatched' = NothingDispatched
  /\ UNCHANGED <<sessVars, otherVars>>

\* onMessage(cb), onMessageAdvanced(cb), onMessageRaw(cb) with a std::function
OnMessageFunction ==
  /\ life = "live"
  /\ Len(closures) < MaxClosures
  /\ \E type \in FuncTypes, fn \in 1..MaxFn :
       LET c == onMessage(CallbackState, type, fn)
       IN callback' = c.callback /\ closures' = c.closures /\ cbLog' = c.cbLog
  /\ dispatched' = NothingDispatched
  /\ UNCHANGED <<sessVars, otherVars>>

\* the engine decoded a PUBLISH and calls MQTTClientHandler with its views;
\* begin() hands the handler to the engine once the buffers exist.  The
\* handler keeps nothing from one message to the next: one message is
\* followed after each registration
Dispatch ==
  /\ life = "live" /\ netClient
  /\ ~dispatched.handled
  /\ \E topic \in Views, message \in Views :
       dispatched' = MQTTClientHandler(callback, topic, message)
  /\ UNCHANGED <<sessVars, callback, closures, cbLog, otherVars>>

\* the message callback's life: registered, replaced, called, destroyed
NextCallback == Begin \/ OnMessage \/ OnMessageFunction \/ Dispatch \/ Destroy

SpecCallback == Init /\ [][NextCallback]_vars

\* the engine calls lwmqtt_arduino_network_read(ref, buffer, len, read, timeout);
\* one call is followed from its entry to its return
NetworkReadCall ==
  /\ life = "live" /\ netClient
  /\ rd.pc = "idle"
  /\ \E len \in 0..MaxReadLen, timeout \in 0..MaxTimeout :
       rd' = network_read_enter(len, timeout)
  /\ UNCHANGED <<sessVars, cbVars, timerVars, codecVars>>

\* one pass of its loop, as far as yield(); Client::read hands out at most
\* the len bytes asked for
NetworkReadStep ==
  /\ rd.pc = "loop"
  /\ \E n \in -1..rd.len : rd' = network_read_step(rd, n)
  /\ UNCHANGED <<sessVars, cbVars, timerVars, codecVars>>

\* yield() has let the other tasks run and returns: the pass asks the
\* transport whether it is still connected
NetworkReadConnected ==
  /\ rd.pc = "yield"
  /\ \E up \in BOOLEAN : rd' = network_read_connected(rd, up)
  /\ UNCHANGED <<sessVars, cbVars, timerVars, codecVars>>

\* the platform's millisecond counter advances while a read is waiting, in
\* yield() too (it is followed up to MaxTimeout past the start of the read)
Tick ==
  /\ rd.pc \in {"loop", "yield"}
  /\ ~geq32(minus32(clock.millis, rd.start), u32(MaxTimeout))
  /\ \E d \in 1..MaxTick :
       /\ clock' = [clock EXCEPT !.millis = plus32(@, u32(d))]
       /\ timers' = advanced(timers, "millis", d)
  /\ timerGot' = [NothingGot EXCEPT !.advances = timerGot.advances]
  /\ UNCHANGED <<sessVars, cbVars, rd, codecVars>>

\* a session whose begin() succeeded, the platform clock at one of its starts
InitRead ==
  /\ Constructed /\ TimersIdle /\ ReaderIdle /\ CodecIdle
  /\ \E m \in ClockStarts : clock = [millis |-> m, custom |-> u32(0)]

NextRead == Begin \/ NetworkReadCall \/ NetworkReadStep \/ NetworkReadConnected \/ Tick

\* MQTTClient::setClockSource(cb)
SetClockSource ==
  /\ life = "live"
  /\ \E cb \in {"", "custom"} : timers' = setClockSource(timers, cb)
  /\ timerGot' = [NothingGot EXCEPT !.advances = timerGot.advances]
  /\ UNCHANGED <<sessVars, cbVars, clock, readVars, codecVars>>

\* the engine sets one of its two timers; one timer is followed from the
\* first time it is set
TimerSet ==
  /\ life = "live" /\ netClient
  /\ \A j \in DOMAIN timers : timers[j].T = 0 /\ timers[j].since = -1
  /\ \E i \in DOMAIN timers, timeout \in TimeoutSamples :
       timers' = [timers EXCEPT ![i] = timer_set(@, timeout)]
  /\ timerGot' = [NothingGot EXCEPT !.advances = timerGot.advances]
  /\ UNCHANGED <<sessVars, cbVars, clock, readVars, codecVars>>

\* the engine asks one of its timers for the time remaining
TimerGet ==
  /\ life = "live" /\ netClient
  /\ \E i \in DOMAIN timers :
       timerGot' = [timerGot EXCEPT !.timer = i, !.remaining = timer_get(timers[i]),
                                    !.T = timers[i].T, !.since = timers[i].since]
  /\ UNCHANGED <<sessVars, cbVars, clock, timers, readVars, codecVars>>

\* one of the clocks advances while a timer is running
Advance ==
  /\ timerGot.advances < MaxAdvances
  /\ \E j \in DOMAIN timers : timers[j].since >= 0
  /\ \E c \in {"millis", "custom"}, d \in Advances :
       /\ clock' = [clock EXCEPT ![c] = plus32(@, u32(d))]
       /\ timers' = advanced(timers, c, d)
  /\ timerGot' = [NothingGot EXCEPT !.advances = timerGot.advances + 1]
  /\ UNCHANGED <<sessVars, cbVars, readVars, codecVars>>

\* a session with both clocks at one of their starts
InitTimer ==
  /\ Constructed /\ TimersIdle /\ ReaderIdle /\ CodecIdle
  /\ \E m \in ClockStarts : clock = [millis |-> m, custom |-> minus32(UINT32_MAX, m)]

NextTimer == Begin \/ SetClockSource \/ TimerSet \/ TimerGet \/ Advance

SpecTimer == InitTimer /\ [][NextTimer]_vars

\* the timers and the transport read of one session, on clocks that differ
NextClock ==
  \/ Begin \/ SetClockSource \/ TimerSet \/ TimerGet
  \/ NetworkReadCall \/ NetworkReadStep \/ NetworkReadConnected \/ Tick

SpecClock == InitTimer /\ [][NextClock]_vars

\* a helper was called with the bytes d to write and returned r
CodecCallWith(f, arg, d, r) ==
  /\ cbuf' = r.buf
  /\ cpos' = r.pos
  /\ cout' = [now |-> Called(f, arg, r), prev |-> cout.now]
  /\ cdata' = d
  /\ UNCHANGED <<sessVars, cbVars, timerVars, readVars>>

\* a helper that is given no bytes was called and returned r
CodecCall(f, arg, r) == CodecCallWith(f, arg, cdata, r)

\* one of the read helpers is called on the cursor
CodecRead ==
  /\ cout.now.calls < MaxCalls
  /\ \/ CodecCall("read_byte", 0, lwmqtt_read_byte(cbuf, cpos))
     \/ CodecCall("read_num", 0, lwmqtt_read_num(cbuf, cpos))
     \/ \E len \in 0..MaxDataLen : CodecCall("read_data", len, lwmqtt_read_data(cbuf, cpos, len))
     \/ CodecCall("read_string", 0, lwmqtt_read_string(cbuf, cpos))
     \/ CodecCall("read_varnum", 0, lwmqtt_read_varnum(cbuf, cpos))

\* one of the write helpers is called on the cursor
CodecWrite ==
  /\ cout.now.calls < MaxCalls
  /\ \/ \E b \in ByteSamples : CodecCall("write_byte", b, lwmqtt_write_byte(cbuf, cpos, b))
     \/ \E n \in NumSamples : CodecCall("write_num", n, lwmqtt_write_num(cbuf, cpos, n))
     \/ \E d \in DataSamples :
          CodecCallWith("write_data", Len(d), d, lwmqtt_write_data(cbuf, cpos, d))
     \/ \E d \in DataSamples :
          CodecCallWith("write_string", Len(d), d, lwmqtt_write_string(cbuf, cpos, d))
     \/ \E v \in VarnumSamples :
          CodecCall("write_varnum", v, lwmqtt_write_varnum(cbuf, cpos, v))

\* the caller sets its cursor back to where the last call started
Rewind ==
  /\ cout.now.calls > 0 /\ cpos /= cout.now.pre
  /\ cpos' = cout.now.pre
  /\ UNCHANGED <<sessVars, cbVars, timerVars, readVars, cbuf, cout, cdata>>

\* a zeroed buffer of CodecLen bytes with the cursor anywhere in it
InitCodec ==
  /\ Constructed /\ readBuf /\ ClocksAtZero /\ TimersIdle /\ ReaderIdle
  /\ cbuf = [i \in 1..CodecLen |-> 0]
  /\ cpos \in 0..CodecLen
  /\ cout = [now |-> NoCall, prev |-> NoCall]
  /\ cdata = <<>>

NextCodec == CodecRead \/ CodecWrite \/ Rewind

\* a wire string is written at the cursor of a fresh buffer
StringWrite ==
  /\ cout.now.calls = 0
  /\ \E s \in StringSamples :
       CodecCallWith("write_string", Len(s), s, lwmqtt_write_string(cbuf, cpos, s))

\* after a string was written, a wire string is read at the cursor: where
\* the write left it, or where the write started if the caller set it back
StringRead ==
  /\ cout.now.op = "write_string"
  /\ CodecCall("read_string", 0, lwmqtt_read_string(cbuf, cpos))

\* a buffer of 0xFF bytes: the short one with the cursor anywhere in it, or
\* the long one with the cursor where the longest string fits exactly or with
\* a byte to spare
InitString ==
  /\ Constructed /\ readBuf /\ ClocksAtZero /\ TimersIdle /\ ReaderIdle
  /\ \E n \in StringBufLens :
       /\ cbuf = SubSeq([i \in 1..n |-> 255], 1, n)
       /\ cpos \in 0..(IF n = CodecLen THEN CodecLen ELSE n - 2 - UINT16_MAX)
  /\ cout = [now |-> NoCall, prev |-> NoCall]
  /\ cdata = <<>>

NextString == StringWrite \/ StringRead \/ Rewind

SpecString == InitString /\ [][NextString]_vars

SpecCodec == InitCodec /\ [][NextCodec]_vars

\* the loop keeps running and the tick source keeps advancing
SpecRead ==
  InitRead /\ [][NextRead]_vars
  /\ WF_vars(NetworkReadStep) /\ WF_vars(NetworkReadConnected) /\ WF_vars(Tick)

----------------------------------------------------------------------------
(* What the claims are stated with *)

\* the operations that start with the connected() guard
GuardedOps == {"publish", "subscribe", "unsubscribe", "loop", "disconnect"}

ConnectOps == {"connect", "connect(skip)"}

\* connected() holds of the current state: the flag is set and the transport
\* that begin() installed reports a live connection
Live == _connected /\ netClient /\ netStatus = 1

\* the places of calls to f in a call log
Places(cs, f) == {i \in 1..Len(cs) : cs[i].f = f}

\* the places of engine calls that returned a failure
Failures(cs) == {i \in 1..Len(cs) : cs[i].f \in EngineCalls /\ cs[i].r /= "LWMQTT_SUCCESS"}

----------------------------------------------------------------------------
\* C1: when connected() is false, publish, subscribe, unsubscribe, loop and
\* disconnect return false, call neither the protocol engine nor the transport's
\* stop/available (and so no read or write, which only the engine makes), and
\* leave the last error, the connected flag and the staged duplicate id as
\* they were.
C1_GuardedOpsAreNoOps ==
  [][ (op' \in GuardedOps /\ ~Live)
        => /\ ret' = FALSE
           /\ calls' = <<>>
           /\ _lastError' = _lastError
           /\ _connected' = _connected
           /\ nextDupPacketID' = nextDupPacketID ]_vars

\* a guarded operation has just refused to run on a session whose flag is set
\* but whose transport reports no connection, with a duplicate id staged
C1_Witness ==
  /\ op \in GuardedOps /\ ret = FALSE /\ calls = <<>>
  /\ _connected /\ netStatus /= 1 /\ nextDupPacketID > 0

\* C2: when the engine call made by publish, subscribe, unsubscribe or loop
\* returns a failure, the operation makes no further engine call, clears the
\* connected flag, stops the transport, returns false and leaves that status
\* in lastError(); while the flag is clear every guarded operation returns
\* false, and only a connect that returns true sets the flag again.
C2_FailureCloses ==
  /\ [](op \in GuardedOps \ {"disconnect"} =>
         \A i \in Failures(calls) :
            /\ Len(calls) = i + 1
            /\ calls[i + 1].f = "Client::stop"
            /\ ~_connected
            /\ ret = FALSE
            /\ _lastError = calls[i].r)
  /\ [][ (~_connected /\ op' \in GuardedOps) => ret' = FALSE ]_vars
  /\ [][ (~_connected /\ _connected') => (op' \in ConnectOps /\ ret' = TRUE) ]_vars

\* a loop whose keep-alive timed out has closed the session
C2_Witness ==
  /\ op = "loop" /\ ret = FALSE /\ ~_connected
  /\ Len(calls) = 3
  /\ calls[2].f = "lwmqtt_keep_alive" /\ calls[2].r = "LWMQTT_NETWORK_TIMEOUT"
  /\ calls[3].f = "Client::stop"
  /\ _lastError = "LWMQTT_NETWORK_TIMEOUT"

\* what C3 says of one step
C3_Step ==
  op' \in ConnectOps =>
    \A i \in Places(calls', "lwmqtt_connect") :
       LET c == calls'[i]
       IN /\ ret' = (c.r = "LWMQTT_SUCCESS")
          /\ c.r = "LWMQTT_SUCCESS" =>
                /\ _connected'
                /\ _sessionPresent' = (c.n = 1)
          /\ c.r /= "LWMQTT_SUCCESS" =>
                /\ ~_connected'
                /\ Len(calls') = i + 1
                /\ calls'[i + 1].f = "Client::stop"
                /\ _lastError' = c.r
                /\ _returnCode' = c.a
                /\ _sessionPresent' = _sessionPresent

\* C3: a connect that reaches lwmqtt_connect returns true exactly when the
\* engine returns success; on success the flag is set and sessionPresent() is
\* what the engine reported; on a failure the flag is cleared, the transport is
\* stopped, lastError() is the engine's status, returnCode() the return code
\* it reported, and sessionPresent() keeps its value.
C3_ConnectOutcome == [][C3_Step]_vars

\* C3 holds of every session whose begin() installed the transport
C3_OnInstalledTransport == [][netClient => C3_Step]_vars

\* what C4 says of one step
C4_Step ==
  /\ op' = "connect" =>
       /\ Live => (Len(calls') >= 2 /\ calls'[1].f = "Client::stop"
                                    /\ calls'[2].f = "Client::connect")
       /\ Cardinality(Places(calls', "Client::connect")) = 1
       /\ \A i \in Places(calls', "Client::connect") :
             /\ calls'[i].a = (IF hostname THEN "hostname" ELSE "address")
             /\ calls'[i].n <= 0 =>
                   /\ ret' = FALSE
                   /\ _lastError' = "LWMQTT_NETWORK_FAILED_CONNECT"
                   /\ Places(calls', "lwmqtt_connect") = {}
  /\ op' = "connect(skip)" =>
       /\ calls' /= <<>>
       /\ calls'[1].f = "lwmqtt_connect"

\* C4: connect without skip stops the transport first when connected() holds,
\* calls the transport's connect exactly once (with the hostname when one is
\* set, the address otherwise) and, when that result is not positive, returns
\* false with NetworkFailedConnect and without the engine; connect with skip
\* calls neither stop nor connect before lwmqtt_connect.
C4_ConnectTransport == [][C4_Step]_vars

\* C4 holds of every session whose begin() installed the transport
C4_OnInstalledTransport == [][netClient => C4_Step]_vars

\* C5: disconnect on a connected session calls lwmqtt_disconnect once, then
\* clears the flag and stops the transport whatever the send returned, and
\* returns true exactly when the send succeeded; connected() is false after it.
C5_DisconnectCloses ==
  [][ (op' = "disconnect" /\ Live)
        => /\ Len(calls') = 2
           /\ calls'[1].f = "lwmqtt_disconnect"
           /\ calls'[2].f = "Client::stop"
           /\ ~_connected'
           /\ ret' = (calls'[1].r = "LWMQTT_SUCCESS")
           /\ ~Live' ]_vars

\* a disconnect whose send succeeded has closed the session and returned true
C5_Witness ==
  /\ op = "disconnect" /\ ret = TRUE /\ ~_connected /\ netStatus = 0
  /\ Len(calls) = 2 /\ calls[1].r = "LWMQTT_SUCCESS" /\ calls[2].f = "Client::stop"

\* C6 as stated: every loop on a connected session yields exactly when
\* available() is positive and always makes the keep-alive call after the
\* yield step; with nothing available it makes the keep-alive call alone and
\* returns true when that succeeds.
C6_LoopAlwaysKeepsAlive ==
  [][ (op' = "loop" /\ Live)
        => LET cs == calls'
           IN /\ cs /= <<>> /\ cs[1].f = "Client::available"
              /\ (Places(cs, "lwmqtt_yield") /= {}) <=> (cs[1].n > 0)
              /\ Places(cs, "lwmqtt_keep_alive") /= {}
              /\ \A y \in Places(cs, "lwmqtt_yield"), k \in Places(cs, "lwmqtt_keep_alive") : y < k
              /\ cs[1].n <= 0 =>
                    /\ cs[2].f = "lwmqtt_keep_alive"
                    /\ (cs[2].r = "LWMQTT_SUCCESS" => ret' = TRUE) ]_vars

\* C6 as amended: every loop on a connected session yields exactly when
\* available() is positive; it makes the keep-alive call, after the yield
\* step, exactly when the yield was skipped or succeeded (a failed yield
\* closes and returns false with no keep-alive call); with nothing available
\* it makes the keep-alive call alone and returns true when that succeeds.
C6_LoopKeepsAliveUnlessYieldFailed ==
  [][ (op' = "loop" /\ Live)
        => LET cs == calls'
               yieldFailed == \E y \in Places(cs, "lwmqtt_yield") : cs[y].r /= "LWMQTT_SUCCESS"
           IN /\ cs /= <<>> /\ cs[1].f = "Client::available"
              /\ (Places(cs, "lwmqtt_yield") /= {}) <=> (cs[1].n > 0)
              /\ (Places(cs, "lwmqtt_keep_alive") /= {}) <=> ~yieldFailed
              /\ \A y \in Places(cs, "lwmqtt_yield"), k \in Places(cs, "lwmqtt_keep_alive") : y < k
              /\ yieldFailed =>
                    /\ ret' = FALSE /\ ~_connected'
                    /\ Len(cs) = 3 /\ cs[3].f = "Client::stop"
              /\ cs[1].n <= 0 =>
                    /\ cs[2].f = "lwmqtt_keep_alive"
                    /\ (cs[2].r = "LWMQTT_SUCCESS" => ret' = TRUE) ]_vars

\* a loop with input available has yielded, then made the keep-alive call
C6_Witness ==
  /\ op = "loop" /\ ret = TRUE /\ Len(calls) = 3 /\ calls[1].n > 0
  /\ calls[2].f = "lwmqtt_yield" /\ calls[3].f = "lwmqtt_keep_alive"

\* C7: the publish that follows prepareDuplicate(id), id > 0, and passes the
\* guard hands the engine a dup_id through which the engine reads id.
C7_EngineReadsStagedId ==
  [][ (op' = "publish" /\ Live /\ nextDupPacketID > 0)
        => (dupSeen'.set /\ dupSeen'.val = nextDupPacketID) ]_vars

\* C8: the staged id is one-shot: it is zero after every publish that passed
\* the guard, whether that publish succeeded or failed; a publish that finds
\* it zero hands the engine no dup_id; and only prepareDuplicate with a
\* non-zero id makes it non-zero again.
C8_StagedIdIsOneShot ==
  /\ [](op = "publish" /\ calls /= <<>> => nextDupPacketID = 0)
  /\ [][ (op' = "publish" /\ nextDupPacketID = 0) => ~dupSeen'.set ]_vars
  /\ [][ (nextDupPacketID = 0 /\ nextDupPacketID' /= 0) => op' = "prepareDuplicate" ]_vars
  /\ [][ (op' = "publish" /\ Live /\ nextDupPacketID > 0) => dupSeen'.set ]_vars

\* a publish that failed in the engine has consumed the id that was staged
C8_Witness ==
  /\ op = "publish" /\ ret = FALSE /\ dupSeen.set /\ nextDupPacketID = 0
  /\ Len(calls) = 2 /\ calls[1].f = "lwmqtt_publish" /\ calls[1].r /= "LWMQTT_SUCCESS"

\* C9: on a session whose buffers could not be allocated, after begin() every
\* connect, publish, subscribe, unsubscribe, loop and disconnect returns false
\* without a call to the transport or the engine and without a call through
\* the unset transport pointer, lastError() is BufferTooShort, and the
\* connected flag is never set.
C9_AllocFailureIsInert ==
  (begun /\ ~readBuf) =>
    /\ op \in GuardedOps \cup ConnectOps => (ret = FALSE /\ calls = <<>>)
    /\ life /= "crashed"
    /\ _lastError = "LWMQTT_BUFFER_TOO_SHORT"
    /\ ~_connected

\* the blocks the will record owns
Owned(w) == {w.ptr, w.topic.data, w.payload.data} \ {0}

\* C10: the session holds at most one will record; no block is freed twice;
\* every live block setWill allocated is one the current will record owns (so
\* that the next setWill, clearWill or the destructor frees it); none is live
\* after destruction; connect hands the engine the current will record, and
\* there is none after clearWill.
C10_WillLifecycle ==
  /\ Cardinality({b \in heap.live : heap.blocks[b] = "record"}) <= 1
  /\ ~heap.dbl
  /\ heap.live = Owned(will)
  /\ life = "destroyed" => heap.live = {}
  /\ op \in ConnectOps /\ Places(calls, "lwmqtt_connect") /= {} => willSeen = will
  /\ op = "clearWill" => will = NullWill

\* the last step the log of a registration holds
LastEvent(log) == log[Len(log)]

\* the destroy events in a log
Destroys(log) == {i \in 1..Len(log) : log[i].e = "destroy"}

\* C11: after any sequence of registrations the callback registered last is
\* the one held and the one a dispatch invokes; the std::function object a
\* replaced callback held is destroyed exactly once, before the new callback
\* is installed, and the one held last exactly once when the session is
\* destroyed; a dispatch while the type is MQTT_CB_NONE invokes nothing and
\* writes nothing
C11_Step ==
  /\ (life' = "live" /\ cbLog' /= <<>>) =>
       LET e == LastEvent(cbLog')
       IN /\ e.e = "install"
          /\ callback'.type = e.type /\ callback'.fn = e.fn
          /\ dispatched'.invoked => (dispatched'.type = e.type /\ dispatched'.fn = e.fn)
  /\ \A i \in 1..Len(closures') :
       closures'[i] = IF life' = "live" /\ callback'.obj = i THEN 0 ELSE 1
  /\ (cbLog' /= cbLog \/ life' /= life) =>
       IF callback.type \in FuncTypes
         THEN /\ Destroys(cbLog') = {1}
              /\ cbLog'[1].obj = callback.obj
         ELSE Destroys(cbLog') = {}
  /\ (dispatched'.handled /\ callback'.type = "MQTT_CB_NONE") =>
       (~dispatched'.invoked /\ dispatched'.written = <<>>)
C11_LastRegistrationWins == [][C11_Step]_vars

\* two closures were registered in turn and the session was destroyed
C11_Witness ==
  /\ life = "destroyed"
  /\ Len(closures) = 2
  /\ closures[1] = 1 /\ closures[2] = 1
  /\ Len(cbLog) = 1 /\ cbLog[1].e = "destroy" /\ cbLog[1].obj = 2

\* a view lies in the read buffer: base <= ptr and ptr + len <= base + readBufSize
InReadBuffer(v) ==
  readBufferPtr <= v.data /\ v.data + v.len <= readBufferPtr + readBufferSize

\* the bytes allocated for the read buffer
Allocated == readBufferPtr..(readBufferPtr + readBufferSize)

\* C12: for the null-terminating kinds (simple, advanced and their closure
\* variants) the handler writes a terminator for a view only when the view
\* lies in the read buffer, the write is one byte at ptr + len inside the
\* readBufSize + 1 bytes allocated, and a view failing that test causes no write
C12_TerminatorInsideBuffer ==
  (dispatched.invoked /\ dispatched.type \in SimpleTypes \cup AdvancedTypes) =>
    /\ dispatched.written =
         (IF InReadBuffer(dispatched.topic)
            THEN <<dispatched.topic.data + dispatched.topic.len>> ELSE <<>>)
         \o (IF InReadBuffer(dispatched.message)
               THEN <<dispatched.message.data + dispatched.message.len>> ELSE <<>>)
    /\ \A i \in 1..Len(dispatched.written) : dispatched.written[i] \in Allocated

\* a topic ending exactly at base + readBufSize was terminated at the last
\* reserved byte, and a payload reaching past the buffer was left alone
C12_Witness ==
  /\ dispatched.invoked /\ dispatched.type = "MQTT_CB_SIMPLE"
  /\ dispatched.topic.len > 0
  /\ dispatched.topic.data + dispatched.topic.len = BufBase + ReadBufSize
  /\ dispatched.message.data = BufBase + ReadBufSize /\ dispatched.message.len > 0
  /\ dispatched.written = <<BufBase + ReadBufSize>>

\* C13: for the zero-copy kinds (raw function, raw closure) the handler
\* writes no byte and passes exactly the topic pointer, topic length, payload
\* pointer and payload length it was given
C13_RawIsZeroCopy ==
  (dispatched.invoked /\ dispatched.type \in RawTypes) =>
    /\ dispatched.written = <<>>
    /\ dispatched.args = <<dispatched.topic.data, dispatched.topic.len,
                           dispatched.message.data, dispatched.message.len>>
    /\ \A i \in 1..Len(dispatched.topicBytes) : dispatched.topicBytes[i] /= 0
    /\ \A i \in 1..Len(dispatched.payloadBytes) : dispatched.payloadBytes[i] /= 0

\* a raw closure was handed views that lie in the read buffer
C13_Witness ==
  /\ dispatched.invoked /\ dispatched.type = "MQTT_CB_FUNC_RAW"
  /\ InReadBuffer(dispatched.topic) /\ InReadBuffer(dispatched.message)
  /\ dispatched.topic.len > 0
  /\ dispatched.args[1] = dispatched.topic.data

\* C14: a transport read asked for at least one byte returns Timeout exactly
\* when it stops at the deadline with no byte accumulated, Success whenever
\* it stops (deadline reached or request filled) with at least one byte, and
\* NetworkFailedRead when a poll yields no bytes and the stream then reports
\* disconnected; bytes_read is the sum of the positive poll results and never
\* exceeds the length requested
C14_ReadOutcome ==
  /\ rd.read = rd.handed /\ rd.read <= rd.requested
  /\ (rd.pc = "done" /\ rd.requested > 0) =>
       /\ rd.ret = "LWMQTT_NETWORK_TIMEOUT" <=> (rd.stop = "deadline" /\ rd.read = 0)
       /\ (rd.stop \in {"deadline", "filled"} /\ rd.read >= 1) => rd.ret = "LWMQTT_SUCCESS"
       /\ rd.stop = "disconnected" => rd.ret = "LWMQTT_NETWORK_FAILED_READ"
       /\ rd.stop \in {"deadline", "filled", "disconnected"}

\* a read stopped at the deadline with a part of what was asked for
C14_Witness ==
  /\ rd.pc = "done" /\ rd.stop = "deadline"
  /\ rd.read >= 1 /\ rd.read < rd.requested
  /\ rd.ret = "LWMQTT_SUCCESS"

\* the milliseconds the platform clock shows since the read began
Waited == minus32(clock.millis, rd.start)

\* C15: every transport read terminates: while the tick source advances, the
\* loop is left no later than the first pass at which the elapsed time is at
\* least the timeout, whatever the transport returns on each poll, and also
\* when the tick counter wraps during the wait
C15_Pass ==
  (rd.pc = "loop" /\ rd' /= rd /\ geq32(Waited, rd.timeout)) => rd'.pc = "done"
C15_ReadTerminates ==
  /\ [][C15_Pass]_vars
  /\ (rd.pc = "loop") ~> (rd.pc = "done")

\* a read that began before the counter wrapped stopped at its deadline after
\* the wrap, having been given nothing
C15_Witness ==
  /\ rd.pc = "done" /\ rd.stop = "deadline" /\ rd.read = 0
  /\ rd.timeout = u32(MaxTimeout)
  /\ rd.start.hi = UINT16_RANGE - 1 /\ clock.millis.hi = 0

\* C16: for a timer set at any start tick s with a timeout T below 2^31 and
\* read when its clock shows (s + d) mod 2^32 with d below 2^31, the time
\* remaining is exactly T - d (negative once d exceeds T), also when the
\* counter wrapped between the set and the read
C16_RemainingIsExact ==
  (timerGot.timer /= 0 /\ timerGot.since >= 0) =>
    timerGot.remaining = timerGot.T - timerGot.since

\* a timer set just before the counter wraps was read after the wrap, past
\* its timeout
C16_Witness ==
  /\ timerGot.timer /= 0 /\ timerGot.since > timerGot.T /\ timerGot.T > 0
  /\ timerGot.remaining < 0
  /\ timers[timerGot.timer].start = UINT32_MAX
  /\ timer_now(timers[timerGot.timer]).hi = 0

\* C17: a codec read helper (read_byte, read_num, read_data, read_string,
\* read_varnum) that returns a failure leaves the cursor where it was before
\* the call: read_string whose length prefix exceeds the bytes left, and
\* read_varnum that runs out of buffer or overflows, included
C17_FailedReadKeepsCursor ==
  (cout.now.op \in ReadOps /\ cout.now.err /= "LWMQTT_SUCCESS") =>
    cout.now.post = cout.now.pre

\* the number of 7-bit groups of a value
RECURSIVE Groups(_)
Groups(v) == IF v < 128 THEN 1 ELSE 1 + Groups(v \div 128)

\* the number of bytes from offset p to the first one without the
\* continuation bit
RECURSIVE GroupsAt(_, _)
GroupsAt(buf, p) == IF p >= Len(buf) \/ buf[p + 1] < 128 THEN 1 ELSE 1 + GroupsAt(buf, p + 1)

\* the bytes a successful call consumes or produces
Advanced(c) ==
  CASE c.op \in {"read_byte", "write_byte"} -> 1
    [] c.op \in {"read_num", "write_num"} -> 2
    [] c.op \in {"read_data", "write_data"} -> c.arg
    [] c.op = "read_string" -> 2 + c.num
    [] c.op = "write_string" -> 2 + c.arg
    [] c.op = "read_varnum" -> GroupsAt(cbuf, c.pre)
    [] c.op = "write_varnum" -> Groups(c.arg)
    [] OTHER -> 0

\* C18: after any sequence of codec calls on a cursor that starts at or
\* before the limit, the cursor is still at or before the limit and no call
\* has read or written a byte at or beyond it; a successful call advances the
\* cursor by exactly the bytes it consumed or produced (1 for a byte, 2 for a
\* u16, len for bytes, 2 + len for a string, the group count for a varnum)
C18_CursorStaysInBuffer ==
  /\ cpos <= Len(cbuf) /\ cout.now.post <= Len(cbuf)
  /\ \A p \in cout.now.touched : p >= cout.now.pre /\ p < Len(cbuf)
  /\ cout.now.err = "LWMQTT_SUCCESS" =>
       /\ cout.now.post - cout.now.pre = Advanced(cout.now)
       /\ cout.now.touched = cout.now.pre..(cout.now.post - 1)

\* a string was written up to the last byte of the buffer and read back
C18_Witness ==
  /\ cout.now.op = "read_string" /\ cout.now.err = "LWMQTT_SUCCESS"
  /\ cout.now.num = MaxDataLen
  /\ cout.now.post = Len(cbuf) /\ cout.now.post - cout.now.pre = 2 + MaxDataLen
  /\ cout.prev.op = "write_string"

\* the length of the encoding the claim gives for a value
ExpectedLength(v) ==
  IF v < 128 THEN 1 ELSE IF v < 16384 THEN 2 ELSE IF v < 2097152 THEN 3 ELSE 4

\* C19: for every value up to 268435455 and a buffer with at least four free
\* bytes, write_varnum succeeds and emits exactly varnum_length(v) bytes (1
\* below 128, 2 below 16384, 3 below 2097152, 4 otherwise), and read_varnum
\* over those bytes succeeds, returns the value and consumes as many bytes
C19_VarnumRoundTrip ==
  /\ (cout.now.op = "write_varnum" /\ cout.now.arg <= 268435455
        /\ Len(cbuf) - cout.now.pre >= 4) =>
       /\ cout.now.err = "LWMQTT_SUCCESS"
       /\ lwmqtt_varnum_length(cout.now.arg) =
            [err |-> "LWMQTT_SUCCESS", len |-> cout.now.post - cout.now.pre]
       /\ cout.now.post - cout.now.pre = ExpectedLength(cout.now.arg)
  /\ (cout.now.op = "read_varnum" /\ cout.prev.op = "write_varnum"
        /\ cout.now.pre = cout.prev.pre /\ cout.prev.arg <= 268435455
        /\ Len(cbuf) - cout.prev.pre >= 4) =>
       /\ cout.now.err = "LWMQTT_SUCCESS"
       /\ cout.now.num = cout.prev.arg
       /\ cout.now.post = cout.prev.post

\* the largest value was written in four bytes and read back
C19_Witness ==
  /\ cout.now.op = "read_varnum" /\ cout.prev.op = "write_varnum"
  /\ cout.now.pre = cout.prev.pre
  /\ cout.prev.arg = 268435455 /\ cout.now.num = 268435455
  /\ cout.now.post - cout.now.pre = 4

\* C20: write_varnum of a value of 268435456 or more fails with
\* VarnumOverflow, as varnum_length does, and never emits a fifth group
C20_WriteVarnumRejectsOverflow ==
  (cout.now.op = "write_varnum" /\ cout.now.arg >= 268435456) =>
    /\ cout.now.err = "LWMQTT_VARNUM_OVERFLOW"
    /\ lwmqtt_varnum_length(cout.now.arg).err = "LWMQTT_VARNUM_OVERFLOW"
    /\ cout.now.post - cout.now.pre < 5

\* the four bytes from offset p on are in the buffer and all have the
\* continuation bit set
FourContinuations(buf, p) ==
  p + 4 <= Len(buf) /\ \A i \in 1..4 : buf[p + i] >= 128

\* C21: read_varnum on input whose first four bytes all have the
\* continuation bit set returns VarnumOverflow, both when the buffer ends
\* after those four bytes and when more bytes follow, and consumes no fifth
\* byte
C21_FourContinuationsOverflow ==
  (cout.now.op = "read_varnum" /\ FourContinuations(cbuf, cout.now.pre)) =>
    /\ cout.now.err = "LWMQTT_VARNUM_OVERFLOW"
    /\ cout.now.post - cout.now.pre <= 4
    /\ cout.now.pre + 4 \notin cout.now.touched

\* C21, the part the code keeps: when at least one byte follows the four
\* continuation bytes, read_varnum returns VarnumOverflow without reading it
C21_OverflowWhenMoreFollows ==
  (cout.now.op = "read_varnum" /\ FourContinuations(cbuf, cout.now.pre)
     /\ cout.now.pre + 4 < Len(cbuf)) =>
    /\ cout.now.err = "LWMQTT_VARNUM_OVERFLOW"
    /\ cout.now.pre + 4 \notin cout.now.touched

\* read_varnum was called on four continuation bytes that end the buffer
C21_ExactlyFour ==
  /\ cout.now.op = "read_varnum" /\ FourContinuations(cbuf, cout.now.pre)
  /\ cout.now.pre + 4 = Len(cbuf)

\* the bytes of the buffer from offset p on are the bytes s
HoldsAt(buf, p, s) == \A i \in 1..Len(s) : buf[p + i] = s[i]

\* C22: for every wire string of length 0 to 65535 and a buffer with at least
\* 2 + length free bytes, write_string emits the length as two bytes, high
\* byte first, followed by the raw bytes, and read_string over that output
\* succeeds with the same length and, for a non-zero length, a view of the
\* same bytes, consuming exactly 2 + length bytes
C22_StringRoundTrip ==
  /\ (cout.now.op = "write_string" /\ Len(cbuf) - cout.now.pre >= 2 + Len(cdata)) =>
       /\ cout.now.err = "LWMQTT_SUCCESS"
       /\ cout.now.post = cout.now.pre + 2 + Len(cdata)
       /\ cbuf[cout.now.pre + 1] = Len(cdata) \div 256
       /\ cbuf[cout.now.pre + 2] = Len(cdata) % 256
       /\ HoldsAt(cbuf, cout.now.pre + 2, cdata)
  /\ (cout.now.op = "read_string" /\ cout.prev.op = "write_string"
        /\ cout.now.pre = cout.prev.pre
        /\ Len(cbuf) - cout.prev.pre >= 2 + Len(cdata)) =>
       /\ cout.now.err = "LWMQTT_SUCCESS"
       /\ cout.now.num = Len(cdata) /\ cout.now.view.len = Len(cdata)
       /\ cout.now.post = cout.now.pre + 2 + Len(cdata)
       /\ Len(cdata) > 0 =>
            /\ cout.now.view.data = cout.now.pre + 2
            /\ HoldsAt(cbuf, cout.now.view.data, cdata)

\* a string was written up to the last byte of the short buffer and read back
C22_Witness ==
  /\ cout.now.op = "read_string" /\ cout.prev.op = "write_string"
  /\ cout.now.pre = cout.prev.pre
  /\ Len(cdata) = MaxDataLen /\ cout.now.num = MaxDataLen
  /\ cout.now.view = [data |-> cout.now.pre + 2, len |-> MaxDataLen]
  /\ cout.now.post = Len(cbuf)

\* a step that is a call of read_data or write_data with len == 0 returns
\* success, hands out the null view and leaves buffer and cursor as they were
C23_Step ==
  (cout'.now.calls = cout.now.calls + 1
     /\ cout'.now.op \in {"read_data", "write_data"} /\ cout'.now.arg = 0) =>
    /\ cout'.now.err = "LWMQTT_SUCCESS"
    /\ cout'.now.touched = {}
    /\ cbuf' = cbuf
    /\ cpos' = cpos /\ cout'.now.post = cout'.now.pre
    /\ cout'.now.view = NoView

\* C23: read_bytes and write_bytes called with len == 0 return success for
\* every cursor state, position == limit included, read or write no byte of
\* the buffer and leave the cursor unchanged; read_bytes then yields the
\* empty (null) view
C23_ZeroLengthIsNoOp == [][C23_Step]_vars

\* both were called with len == 0 on a cursor at the limit
C23_Witness ==
  /\ cout.now.op = "read_data" /\ cout.now.arg = 0 /\ cout.now.pre = Len(cbuf)
  /\ cout.prev.op = "write_data" /\ cout.prev.arg = 0 /\ cout.prev.pre = Len(cbuf)
  /\ cout.now.err = "LWMQTT_SUCCESS" /\ cout.prev.err = "LWMQTT_SUCCESS"
  /\ cpos = Len(cbuf)

\* a clock source is installed in both timers
Installed == \A i \in DOMAIN timers : timers[i].millis = "custom"

\* with a clock source installed, a step that arms a timer takes its start
\* from the installed clock and a step that reads one measures on it
C24_TimerStep ==
  Installed =>
    /\ \A i \in DOMAIN timers :
         (timers'[i] /= timers[i] /\ timers'[i].millis = "custom" /\ timers'[i].since = 0) =>
           timers'[i].start = clock.custom
    /\ (timerGot' /= timerGot /\ timerGot'.timer /= 0) =>
         timerGot'.remaining =
           int32(minus32(timers[timerGot'.timer].timeout,
                         minus32(clock.custom, timers[timerGot'.timer].start)))

\* with a clock source installed, a step that enters the transport read
\* takes its start from the installed clock, and a step that leaves it for
\* the deadline does so when the installed clock is timeout past that start
C24_ReadStep ==
  Installed =>
    /\ (rd.pc = "idle" /\ rd'.pc = "loop") => rd'.start = clock.custom
    /\ (rd.pc = "loop" /\ rd'.pc = "done" /\ rd'.stop = "deadline") =>
         expired(clock.custom, rd.start, rd.timeout)

\* C24: once a clock source is installed with setClockSource, every timeout
\* measurement of the session uses that clock: the protocol timers (arm and
\* remaining) and the transport read's deadline read the installed clock and
\* never the platform's millisecond counter
C24_InstalledClockMeasuresAll == [][C24_TimerStep /\ C24_ReadStep]_vars

\* C24, the part the code keeps: the protocol timers read the installed clock
C24_TimersUseInstalledClock == [][C24_TimerStep]_vars

\* with a clock source installed, a transport read took its start from the
\* platform's counter and ran into its deadline on it
C24_ReadTimedOutOnPlatformClock ==
  /\ Installed
  /\ rd.pc = "done" /\ rd.stop = "deadline" /\ rd.timeout = u32(MaxTimeout)
  /\ rd.start /= clock.custom
  /\ expired(clock.millis, rd.start, rd.timeout)

\* a null-terminating callback was handed views as decode leaves them: a
\* topic of at least one byte and a payload at or after its end, both in the
\* read buffer
DecodedViews ==
  /\ dispatched.invoked /\ dispatched.type \in SimpleTypes \cup AdvancedTypes
  /\ InReadBuffer(dispatched.topic) /\ InReadBuffer(dispatched.message)
  /\ dispatched.topic.len > 0
  /\ dispatched.message.data >= dispatched.topic.data + dispatched.topic.len

\* the bytes the callback finds in both views are the bytes decode left
ContentKept ==
  /\ \A i \in 1..Len(dispatched.topicBytes) : dispatched.topicBytes[i] /= 0
  /\ \A i \in 1..Len(dispatched.payloadBytes) : dispatched.payloadBytes[i] /= 0

\* C25: for the null-terminating callback kinds, dispatch changes no byte
\* inside the topic view or inside the payload view: for every pair of
\* decoded views in the read buffer, a payload that starts right after the
\* topic's last byte included, the topic and payload content handed to the
\* callback is the decoded content over the full view lengths
C25_DispatchKeepsContent == DecodedViews => ContentKept

\* C25, the part the code keeps: the content is kept when the payload is
\* empty or does not start right after the topic's last byte
C25_KeptUnlessAdjacent ==
  (DecodedViews
     /\ (dispatched.message.len = 0
           \/ dispatched.message.data > dispatched.topic.data + dispatched.topic.len)) =>
    ContentKept

\* the payload started right after the topic's last byte, and the callback
\* found a zero in its first byte
C25_PayloadFirstByteLost ==
  /\ DecodedViews
  /\ dispatched.message.data = dispatched.topic.data + dispatched.topic.len
  /\ dispatched.message.len > 0
  /\ dispatched.payloadBytes[1] = 0
  /\ dispatched.written[1] = dispatched.message.data

\* what C26 says of one step of a session whose begin() installed the
\* transport: a connect that returns false leaves the flag clear, and only a
\* connect that returns true sets it
C26_Step ==
  netClient =>
    /\ (op' \in ConnectOps /\ ~ret') => ~_connected'
    /\ (_connected' /\ ~_connected) => (op' \in ConnectOps /\ ret')

\* C26: in every reachable state, if the most recent connect call returned
\* false (for a transport connect failure as well as a protocol-engine
\* failure), the internal connected flag is clear, so connected() stays
\* false, whatever the transport reports afterwards, until a later connect
\* call returns true
C26_FailedConnectClearsFlag == [][C26_Step]_vars

\* C26, the part the code keeps: a connect that fails in the protocol engine
\* leaves the flag clear, and only a connect that returns true sets it
C26_EngineFailureClearsFlag ==
  [][netClient =>
       /\ (op' \in ConnectOps /\ ~ret' /\ Places(calls', "lwmqtt_connect") /= {}) =>
            ~_connected'
       /\ (_connected' /\ ~_connected) => (op' \in ConnectOps /\ ret')]_vars

\* the last connect failed at the transport's connect, and connected() is
\* true again now that the transport reports a connection
C26_ConnectedAfterFailedConnect ==
  /\ life = "live" /\ netClient
  /\ op = "env" /\ _lastError = "LWMQTT_NETWORK_FAILED_CONNECT"
  /\ connected(Session)

====
